---- MODULE Spec2Model ----
(***************************************************************************)
(* SsTableBuilder of mini-lsm (src/mini-lsm-starter/src/table/builder.rs). *)
(* The builder is modelled as a record with the fields of the struct; the  *)
(* block accumulator, the metadata encoder and the file object live in     *)
(* other files of the crate and are modelled from their interface.         *)
(***************************************************************************)
EXTENDS Integers, Sequences, FiniteSets, TLC

\* ---------------------------------------------------------------- bounds
MaxAdds == 3          \* add calls per builder
MaxKeyLen == 1        \* bytes per key
\* u32 is 32 bits wide; the model scales the width of the `as u32` cast down
\* to TrailerBits so that a data region reaching 2^w bytes is within reach.
TrailerBits == 4

KeyBytes == {1}
BlockSizes == {8, 12, 20}
TableIds == {0, 1}
Caches == {"None", "Some"}
Paths == {"p1", "p2"}
\* the build calls tried: two that differ in every argument
BuildCalls == {[id |-> 0, block_cache |-> "None", path |-> "p1"],
               [id |-> 1, block_cache |-> "Some", path |-> "p2"]}

SIZEOF_U16 == 2

SeqsUpTo(S, n) == UNION {[1..m -> S] : m \in 0..n}
Keys == SeqsUpTo(KeyBytes, MaxKeyLen)
Values == {<<>>, <<7>>}

RECURSIVE Pow2(_)
Pow2(n) == IF n = 0 THEN 1 ELSE 2 * Pow2(n - 1)

\* big-endian encoding of x on n bytes (BufMut::put_u16 / put_u32 / put_u64)
RECURSIVE PutBE(_, _)
PutBE(x, n) == IF n = 0 THEN <<>> ELSE PutBE(x \div 256, n - 1) \o <<x % 256>>

\* big-endian decoding of a byte sequence (Buf::get_u32 of the reader)
RECURSIVE GetBE(_)
GetBE(bs) ==
  IF bs = <<>> THEN 0 ELSE 256 * GetBE(SubSeq(bs, 1, Len(bs) - 1)) + bs[Len(bs)]

\* `x as u32`: keeps the low bits of a usize
AsU32(x) == x % Pow2(TrailerBits)

\* ------------------------------------------------ block accumulator
\* BlockBuilder::new(block_size)
BlockBuilderNew(block_size) == [block_size |-> block_size, entries |-> <<>>]

RECURSIVE EntriesBytes(_)
EntriesBytes(es) ==
  IF es = <<>> THEN 0
  ELSE 2 * SIZEOF_U16 + Len(es[1][1]) + Len(es[1][2]) + EntriesBytes(Tail(es))

\* bytes the accumulator would encode to: entries, offsets, entry count
BlockEstimatedSize(b) ==
  SIZEOF_U16 + Len(b.entries) * SIZEOF_U16 + EntriesBytes(b.entries)

\* BlockBuilder::add reports true when the pair is accepted
BlockBuilderAccepts(b, key, value) ==
  BlockEstimatedSize(b) + Len(key) + Len(value) + 3 * SIZEOF_U16 <= b.block_size

BlockBuilderAdd(b, key, value) ==
  IF BlockBuilderAccepts(b, key, value)
  THEN [b EXCEPT !.entries = Append(@, <<key, value>>)]
  ELSE b

RECURSIVE EncodeEntries(_)
EncodeEntries(es) ==
  IF es = <<>> THEN <<>>
  ELSE PutBE(Len(es[1][1]), 2) \o es[1][1] \o PutBE(Len(es[1][2]), 2) \o es[1][2]
       \o EncodeEntries(Tail(es))

RECURSIVE EncodeOffsets(_, _)
EncodeOffsets(es, at) ==
  IF es = <<>> THEN <<>>
  ELSE PutBE(at, 2)
       \o EncodeOffsets(Tail(es), at + 2 * SIZEOF_U16 + Len(es[1][1]) + Len(es[1][2]))

\* BlockBuilder::build().encode(): entries, then their offsets, then the count
BlockEncode(b) ==
  EncodeEntries(b.entries) \o EncodeOffsets(b.entries, 0) \o PutBE(Len(b.entries), 2)

\* the entry of an encoded block that starts after `at` bytes
DecodeEntryAt(bytes, at) ==
  LET klen == GetBE(SubSeq(bytes, at + 1, at + 2))
      vlen == GetBE(SubSeq(bytes, at + 2 + klen + 1, at + 2 + klen + 2))
  IN <<SubSeq(bytes, at + 3, at + 2 + klen),
       SubSeq(bytes, at + 2 + klen + 3, at + 2 + klen + 2 + vlen)>>

\* Block::decode followed by a scan: the entry count is read from the last two
\* bytes, the offsets section before it locates each entry
BlockDecode(bytes) ==
  LET n == GetBE(SubSeq(bytes, Len(bytes) - 1, Len(bytes)))
      offs == Len(bytes) - 2 - 2 * n
  IN [j \in 1..n |->
        DecodeEntryAt(bytes, GetBE(SubSeq(bytes, offs + 2 * j - 1, offs + 2 * j)))]

\* ------------------------------------------------ metadata encoder
RECURSIVE EncodeMetaEntries(_)
EncodeMetaEntries(ms) ==
  IF ms = <<>> THEN <<>>
  ELSE PutBE(ms[1].offset, 8) \o PutBE(Len(ms[1].first_key), 2) \o ms[1].first_key
       \o EncodeMetaEntries(Tail(ms))

\* BlockMeta::encode_block_meta(meta, buf): appends count and entries to buf
encode_block_meta(ms, buf) == buf \o PutBE(Len(ms), 4) \o EncodeMetaEntries(ms)

\* ------------------------------------------------ SsTableBuilder
\* SsTableBuilder::new
new(block_size) ==
  [meta |-> <<>>,
   ongoing_block_builder |-> BlockBuilderNew(block_size),
   data |-> <<>>,
   block_size |-> block_size,
   first_key |-> <<>>]

\* finish_block recording the offset after the block's bytes were appended
finish_block_offset_after(self) ==
  [self EXCEPT
     !.meta = Append(@, [offset |-> Len(self.data)
                                      + Len(BlockEncode(self.ongoing_block_builder)),
                         first_key |-> self.first_key]),
     !.first_key = <<>>,
     !.ongoing_block_builder = BlockBuilderNew(self.block_size),
     !.data = @ \o BlockEncode(self.ongoing_block_builder)]

\* finish_block leaving the sealed accumulator in place as the ongoing one
finish_block_keep_builder(self) ==
  [self EXCEPT
     !.meta = Append(@, [offset |-> Len(self.data), first_key |-> self.first_key]),
     !.first_key = <<>>,
     !.data = @ \o BlockEncode(self.ongoing_block_builder)]

\* finish_block pushing the new metadata entry in front of the others
finish_block_meta_front(self) ==
  [self EXCEPT
     !.meta = <<[offset |-> Len(self.data), first_key |-> self.first_key]>> \o @,
     !.first_key = <<>>,
     !.ongoing_block_builder = BlockBuilderNew(self.block_size),
     !.data = @ \o BlockEncode(self.ongoing_block_builder)]

\* finish_block overwriting data with the block's bytes instead of extending it
finish_block_replace_data(self) ==
  [self EXCEPT
     !.meta = Append(@, [offset |-> Len(self.data), first_key |-> self.first_key]),
     !.first_key = <<>>,
     !.ongoing_block_builder = BlockBuilderNew(self.block_size),
     !.data = BlockEncode(self.ongoing_block_builder)]

\* SsTableBuilder::finish_block
finish_block(self) ==
  [self EXCEPT
     !.meta = Append(@, [offset |-> Len(self.data), first_key |-> self.first_key]),
     !.first_key = <<>>,
     !.ongoing_block_builder = BlockBuilderNew(self.block_size),
     !.data = @ \o BlockEncode(self.ongoing_block_builder)]

\* estimated_size counting the ongoing block as well
estimated_size_with_ongoing(self) ==
  Len(self.data) + BlockEstimatedSize(self.ongoing_block_builder)

\* SsTableBuilder::estimated_size
estimated_size(self) == Len(self.data)

\* add without the reset of first_key to the key that sealed the block
add_no_first_key_reset(self, key, value, dbg) ==
  LET s1 == IF self.first_key = <<>> THEN [self EXCEPT !.first_key = key] ELSE self
  IN IF BlockBuilderAccepts(s1.ongoing_block_builder, key, value)
     THEN [self |-> [s1 EXCEPT !.ongoing_block_builder = BlockBuilderAdd(@, key, value)],
           panicked |-> FALSE, sealed |-> FALSE, full |-> 0]
     ELSE LET s2 == finish_block(s1)
          IN IF dbg
             THEN IF BlockBuilderAccepts(s2.ongoing_block_builder, key, value)
                  THEN [self |-> [s2 EXCEPT
                                    !.ongoing_block_builder = BlockBuilderAdd(@, key, value)],
                        panicked |-> FALSE, sealed |-> TRUE, full |-> 1]
                  ELSE [self |-> s2, panicked |-> TRUE, sealed |-> TRUE, full |-> 2]
             ELSE [self |-> s2, panicked |-> FALSE, sealed |-> TRUE, full |-> 1]

\* SsTableBuilder::add.  dbg is cfg!(debug_assertions): debug_assert! evaluates
\* its argument only when dbg holds.  The result carries the builder after the
\* call, whether the call panicked, whether it sealed a block and how many
\* times the accumulator reported full.
add(self, key, value, dbg) ==
  LET s1 == IF self.first_key = <<>> THEN [self EXCEPT !.first_key = key] ELSE self
  IN IF BlockBuilderAccepts(s1.ongoing_block_builder, key, value)
     THEN [self |-> [s1 EXCEPT !.ongoing_block_builder = BlockBuilderAdd(@, key, value)],
           panicked |-> FALSE, sealed |-> FALSE, full |-> 0]
     ELSE LET s2 == finish_block(s1)
          IN IF dbg
             THEN IF BlockBuilderAccepts(s2.ongoing_block_builder, key, value)
                  THEN [self |-> [s2 EXCEPT
                                    !.ongoing_block_builder = BlockBuilderAdd(@, key, value),
                                    !.first_key = key],
                        panicked |-> FALSE, sealed |-> TRUE, full |-> 1]
                  ELSE [self |-> s2, panicked |-> TRUE, sealed |-> TRUE, full |-> 2]
             ELSE [self |-> [s2 EXCEPT !.first_key = key],
                   panicked |-> FALSE, sealed |-> TRUE, full |-> 1]

NoTable == [file |-> <<>>, block_metas |-> <<>>, block_meta_offset |-> 0]

\* build without the final seal of the ongoing block
build_no_final_seal(self, id, block_cache, path, io_ok) ==
  LET block_meta_offset == Len(self.data)
      buffer == encode_block_meta(self.meta, self.data)
                  \o PutBE(AsU32(block_meta_offset), 4)
  IN IF io_ok
     THEN [result |-> "Ok",
           table |-> [file |-> buffer,
                      block_metas |-> self.meta,
                      block_meta_offset |-> block_meta_offset]]
     ELSE [result |-> "Panic", table |-> NoTable]

\* build reading block_meta_offset before the final seal
build_offset_before_seal(self, id, block_cache, path, io_ok) ==
  LET block_meta_offset == Len(self.data)
      s == finish_block(self)
      buffer == encode_block_meta(s.meta, s.data)
                  \o PutBE(AsU32(block_meta_offset), 4)
  IN IF io_ok
     THEN [result |-> "Ok",
           table |-> [file |-> buffer,
                      block_metas |-> s.meta,
                      block_meta_offset |-> block_meta_offset]]
     ELSE [result |-> "Panic", table |-> NoTable]

\* build sealing the ongoing block only when it holds an entry
build_skip_empty_block(self, id, block_cache, path, io_ok) ==
  LET s == IF self.ongoing_block_builder.entries = <<>>
           THEN self ELSE finish_block(self)
      block_meta_offset == Len(s.data)
      buffer == encode_block_meta(s.meta, s.data)
                  \o PutBE(AsU32(block_meta_offset), 4)
  IN IF io_ok
     THEN [result |-> "Ok",
           table |-> [file |-> buffer,
                      block_metas |-> s.meta,
                      block_meta_offset |-> block_meta_offset]]
     ELSE [result |-> "Panic", table |-> NoTable]

\* build writing the table id into the trailer
build_id_in_trailer(self, id, block_cache, path, io_ok) ==
  LET s == finish_block(self)
      block_meta_offset == Len(s.data)
      buffer == encode_block_meta(s.meta, s.data) \o PutBE(AsU32(id), 4)
  IN IF io_ok
     THEN [result |-> "Ok",
           table |-> [file |-> buffer,
                      block_metas |-> s.meta,
                      block_meta_offset |-> block_meta_offset]]
     ELSE [result |-> "Panic", table |-> NoTable]

\* SsTableBuilder::build.  io_ok is the outcome of FileObject::create, which
\* stores the buffer it is given; its Err is unwrapped, which panics.
build(self, id, block_cache, path, io_ok) ==
  LET s == finish_block(self)
      block_meta_offset == Len(s.data)
      buffer == encode_block_meta(s.meta, s.data)
                  \o PutBE(AsU32(block_meta_offset), 4)
  IN IF io_ok
     THEN [result |-> "Ok",
           table |-> [file |-> buffer,
                      block_metas |-> s.meta,
                      block_meta_offset |-> block_meta_offset]]
     ELSE [result |-> "Panic", table |-> NoTable]

\* ---------------------------------------------------------------- state
VARIABLES
  builder,           \* the SsTableBuilder
  state,             \* "Open" or "Built" (build consumes the builder)
  panic,             \* "none", "add" or "build": where the thread panicked
  debug_assertions,  \* build profile: cfg!(debug_assertions)
  result,            \* what build returned: "none", "Ok", "Err" or "Panic"
  table,             \* the SsTable returned by build
  io_failed,         \* FileObject::create returned Err
  added,             \* history: the (key, value) pairs passed to add
  full_reports,      \* history: times the accumulator reported full
  seal_keys,         \* history: keys of the add calls that sealed a block
  sealed_blocks,     \* history: the accumulators sealed so far
  observed,          \* history: values returned by estimated_size
  build_args         \* history: the arguments build was called with

NoArgs == [id |-> 0, block_cache |-> "None", path |-> "", called |-> FALSE]

vars == <<builder, state, panic, debug_assertions, result, table, io_failed,
          added, full_reports, seal_keys, sealed_blocks, observed, build_args>>

Init ==
  /\ \E bs \in BlockSizes : builder = new(bs)
  /\ state = "Open"
  /\ panic = "none"
  /\ debug_assertions \in BOOLEAN
  /\ result = "none"
  /\ table = NoTable
  /\ io_failed = FALSE
  /\ added = <<>>
  /\ full_reports = 0
  /\ seal_keys = <<>>
  /\ sealed_blocks = <<>>
  /\ observed = {}
  /\ build_args = NoArgs

\* a builder that could still be used after build consumed it
Live_after_build == panic = "none"

\* add and build need the builder: build takes it by value, and a panic ends
\* the thread that owns it
Live == state = "Open" /\ panic = "none"

Add ==
  /\ Live
  /\ Len(added) < MaxAdds
  /\ \E key \in Keys, value \in Values :
       LET r == add(builder, key, value, debug_assertions)
       IN /\ builder' = r.self
          /\ panic' = IF r.panicked THEN "add" ELSE "none"
          /\ added' = Append(added, <<key, value>>)
          /\ full_reports' = full_reports + r.full
          /\ seal_keys' = IF r.sealed THEN Append(seal_keys, key) ELSE seal_keys
          /\ sealed_blocks' = IF r.sealed
                              THEN Append(sealed_blocks, builder.ongoing_block_builder)
                              ELSE sealed_blocks
  /\ UNCHANGED <<state, debug_assertions, result, table, io_failed, observed,
                 build_args>>

EstimatedSize ==
  /\ Live
  /\ observed' = observed \cup {estimated_size(builder)}
  /\ UNCHANGED <<builder, state, panic, debug_assertions, result, table,
                 io_failed, added, full_reports, seal_keys, sealed_blocks,
                 build_args>>

Build ==
  /\ Live
  /\ \E call \in BuildCalls, io_ok \in BOOLEAN :
       LET r == build(builder, call.id, call.block_cache, call.path, io_ok)
       IN /\ result' = r.result
          /\ table' = r.table
          /\ io_failed' = ~io_ok
          /\ panic' = IF r.result = "Panic" THEN "build" ELSE "none"
          /\ build_args' = [id |-> call.id, block_cache |-> call.block_cache,
                            path |-> call.path, called |-> TRUE]
  /\ sealed_blocks' = Append(sealed_blocks, builder.ongoing_block_builder)
  /\ builder' = [finish_block(builder) EXCEPT !.data = <<>>]
  /\ state' = "Built"
  /\ UNCHANGED <<debug_assertions, added, full_reports, seal_keys, observed>>

Next == Add \/ EstimatedSize \/ Build

Spec == Init /\ [][Next]_vars

TypeOK ==
  /\ state \in {"Open", "Built"}
  /\ panic \in {"none", "add", "build"}
  /\ result \in {"none", "Ok", "Err", "Panic"}
  /\ Len(added) <= MaxAdds

\* ------------------------------------------------------- auxiliary
\* lexicographic order on byte sequences (Ord for [u8])
RECURSIVE KeyLE(_, _)
KeyLE(a, b) ==
  IF a = <<>> THEN TRUE
  ELSE IF b = <<>> THEN FALSE
  ELSE IF a[1] # b[1] THEN a[1] < b[1]
  ELSE KeyLE(Tail(a), Tail(b))

NonDecreasing(ps) == \A i \in 1..(Len(ps) - 1) : KeyLE(ps[i][1], ps[i + 1][1])

\* encoded byte length of the first n sealed blocks
RECURSIVE CumLen(_, _)
CumLen(blocks, n) ==
  IF n = 0 THEN 0 ELSE CumLen(blocks, n - 1) + Len(BlockEncode(blocks[n]))

\* concatenation of the encodings of the first n sealed blocks
RECURSIVE DataRegion(_, _)
DataRegion(blocks, n) ==
  IF n = 0 THEN <<>> ELSE DataRegion(blocks, n - 1) \o BlockEncode(blocks[n])

Trailer(file) == SubSeq(file, Len(file) - 3, Len(file))

OffsetsCumulative(ms) ==
  /\ Len(ms) <= Len(sealed_blocks)
  /\ \A i \in 1..Len(ms) : ms[i].offset = CumLen(sealed_blocks, i - 1)

\* ---------------------------------------------------------- claims

\* C1: in the returned Table, block_metas[i].first_key is the key of the first
\* pair added to block i: the key of the very first add for i = 0, the key of
\* the add that sealed block i-1 for i > 0, for every key, the empty one too.
C1_FirstKeyIsFirstAdded ==
  (result = "Ok" /\ added # <<>>) =>
    \A i \in 1..Len(table.block_metas) :
      table.block_metas[i].first_key =
        (IF i = 1 THEN added[1][1] ELSE seal_keys[i - 1])

\* C2: after every add call that returns, the pair just added is the last
\* entry of the ongoing block accumulator.
C2_AddedPairStored ==
  (Live /\ added # <<>>) =>
    /\ builder.ongoing_block_builder.entries # <<>>
    /\ builder.ongoing_block_builder.entries
         [Len(builder.ongoing_block_builder.entries)] = added[Len(added)]

\* C3: for non-decreasing keys the returned Table has as many metadata entries
\* as the accumulator reported full, plus one for the seal done by build.
C3_MetaCount ==
  (result = "Ok" /\ NonDecreasing(added)) =>
    Len(table.block_metas) = full_reports + 1

C3_Witness ==
  /\ result = "Ok" /\ NonDecreasing(added)
  /\ full_reports = 2 /\ Len(table.block_metas) = 3

\* C4: every metadata entry's offset is the sum of the encoded lengths of the
\* blocks sealed before it, in the builder and in the returned Table, and the
\* builder's data length is the sum of the encoded lengths of all sealed blocks.
C4_OffsetsCumulative ==
  /\ state = "Open" =>
       /\ Len(builder.meta) = Len(sealed_blocks)
       /\ OffsetsCumulative(builder.meta)
       /\ Len(builder.data) = CumLen(sealed_blocks, Len(sealed_blocks))
  /\ result = "Ok" =>
       /\ Len(table.block_metas) = Len(sealed_blocks)
       /\ OffsetsCumulative(table.block_metas)

C4_Witness ==
  /\ result = "Ok"
  /\ Len(table.block_metas) = 3
  /\ table.block_metas[3].offset > table.block_metas[2].offset
  /\ table.block_metas[2].offset > 0

\* C5: after build, block_meta_offset is the byte length of the data region
\* and the file length minus the encoded metadata length minus 4; the file is
\* the data region, then the encoded metadata, then a 4-byte trailer.
C5_FileLayout ==
  result = "Ok" =>
    LET region == DataRegion(sealed_blocks, Len(sealed_blocks))
        metas == encode_block_meta(table.block_metas, <<>>)
    IN /\ table.block_meta_offset = Len(region)
       /\ table.block_meta_offset = Len(table.file) - Len(metas) - 4
       /\ SubSeq(table.file, 1, Len(table.file) - 4) = region \o metas

C5_Witness ==
  /\ result = "Ok"
  /\ Len(sealed_blocks) >= 2
  /\ table.block_meta_offset > Len(BlockEncode(sealed_blocks[1]))

\* C6: the unsigned value in the last 4 bytes of the file is
\* block_meta_offset, whatever the length of the data region.
C6_TrailerIsMetaOffset ==
  result = "Ok" => GetBE(Trailer(table.file)) = table.block_meta_offset

\* C7: when persisting fails, build returns the failure as an error value and
\* does not abort its caller.
C7_IoFailureReturned ==
  io_failed => (result = "Err" /\ panic = "none")

\* C8: build after zero add calls gives one metadata entry with offset 0 and
\* an empty first key, a data region that is one encoded empty block, and a
\* trailer holding block_meta_offset, the length of that encoded block.
C8_EmptyBuild ==
  (result = "Ok" /\ added = <<>>) =>
    LET empty == BlockEncode(BlockBuilderNew(builder.block_size))
    IN /\ table.block_metas = <<[offset |-> 0, first_key |-> <<>>]>>
       /\ SubSeq(table.file, 1, table.block_meta_offset) = empty
       /\ table.block_meta_offset = Len(empty)
       /\ GetBE(Trailer(table.file)) = table.block_meta_offset

C8_Witness ==
  result = "Ok" /\ added = <<>> /\ Len(table.file) > 4

\* C9: on an open builder estimated_size() is the number of bytes of the
\* sealed blocks (the ongoing block excluded); every value it returned is at
\* most the data-region length of the Table built later and less than the
\* length of the persisted file.
C9_EstimatedSizeBound ==
  /\ state = "Open" =>
       estimated_size(builder) = CumLen(sealed_blocks, Len(sealed_blocks))
  /\ result = "Ok" =>
       \A n \in observed : n <= table.block_meta_offset /\ n < Len(table.file)

C9_Witness ==
  /\ result = "Ok"
  /\ Cardinality(observed) >= 2
  /\ \E n \in observed : n > 0 /\ n < table.block_meta_offset

\* C10: no add call, sealing or not, lowers estimated_size().
C10_EstimatedSizeMonotonic ==
  [][(state = "Open" /\ state' = "Open")
       => estimated_size(builder') >= estimated_size(builder)]_vars

C10_Witness ==
  /\ Live
  /\ Len(seal_keys) >= 2
  /\ estimated_size(builder) > Len(BlockEncode(sealed_blocks[1]))

\* C11: in the returned Table the offsets of block_metas are strictly
\* increasing with the index, also when an empty block was sealed.
C11_OffsetsStrictlyIncreasing ==
  result = "Ok" =>
    \A i \in 1..(Len(table.block_metas) - 1) :
      table.block_metas[i].offset < table.block_metas[i + 1].offset

C11_Witness ==
  /\ result = "Ok"
  /\ Len(table.block_metas) = 3
  /\ \E i \in 1..2 : sealed_blocks[i].entries = <<>>

FirstKeysAscending(ms) ==
  \A i \in 1..(Len(ms) - 1) : KeyLE(ms[i].first_key, ms[i + 1].first_key)

\* C12: when the keys passed to add are non-decreasing, the metadata entries
\* of the builder and of the returned Table are ordered by first_key; add
\* never rejects a pair for its key order (it panics only on a pair that the
\* fresh accumulator does not accept).
C12_FirstKeysAscending ==
  /\ NonDecreasing(added) =>
       /\ FirstKeysAscending(builder.meta)
       /\ result = "Ok" => FirstKeysAscending(table.block_metas)
  /\ panic = "add" =>
       ~BlockBuilderAccepts(BlockBuilderNew(builder.block_size),
                            added[Len(added)][1], added[Len(added)][2])

C12_Witness ==
  /\ result = "Ok" /\ NonDecreasing(added)
  /\ Len(table.block_metas) = 3
  /\ table.block_metas[1].first_key # table.block_metas[3].first_key

\* C13: the builder is Open or Built; add happens only on an Open builder and
\* leaves it Open; build moves Open to Built; nothing happens to a Built
\* builder (no add, no second build, no way back to Open).
C13_Lifecycle ==
  [][/\ state \in {"Open", "Built"} /\ state' \in {"Open", "Built"}
     /\ state # "Built"
     /\ added' # added => (state = "Open" /\ state' = "Open")
     /\ build_args' # build_args =>
          (state = "Open" /\ state' = "Built" /\ ~build_args.called)
     /\ state' # state => (build_args'.called /\ ~build_args.called)]_vars

C13_Witness ==
  state = "Built" /\ build_args.called /\ result = "Ok" /\ Len(added) >= 2

\* the cache handle a Table holds: its block_cache field, None without one
TableCache(t) == IF "block_cache" \in DOMAIN t THEN t.block_cache ELSE "None"

\* C14: the Table returned by build holds the optional cache handle that was
\* passed to build.
C14_CacheStored ==
  result = "Ok" => TableCache(table) = build_args.block_cache

\* a step that is an add call accepted by the ongoing accumulator
AcceptedAdd == added' # added /\ full_reports' = full_reports

\* C15: an add that the ongoing accumulator accepts leaves the metadata, the
\* data buffer, the block size and estimated_size() unchanged; the pair joins
\* the ongoing block, and the pending first key changes only when that block
\* was empty.
C15_AcceptedAddFrame ==
  [][AcceptedAdd =>
       /\ builder'.meta = builder.meta
       /\ builder'.data = builder.data
       /\ builder'.block_size = builder.block_size
       /\ estimated_size(builder') = estimated_size(builder)
       /\ builder'.ongoing_block_builder.entries =
            Append(builder.ongoing_block_builder.entries, added'[Len(added')])
       /\ builder'.first_key # builder.first_key =>
            builder.ongoing_block_builder.entries = <<>>]_vars

\* every pair passed to add fits an empty accumulator of the target block size
AllFitEmptyBlock ==
  \A i \in 1..Len(added) :
    BlockBuilderAccepts(BlockBuilderNew(builder.block_size),
                        added[i][1], added[i][2])

\* C16: when every added pair fits an empty accumulator, the assertion of add
\* (the insertion into the fresh accumulator succeeds) never fails.
C16_AssertionHolds ==
  AllFitEmptyBlock => panic # "add"

C16_Witness ==
  /\ debug_assertions /\ Live /\ AllFitEmptyBlock
  /\ Len(seal_keys) >= 2
  /\ builder.ongoing_block_builder.entries = <<added[Len(added)]>>

\* the bytes of block i of a Table: from its offset to the next block's offset
\* (to block_meta_offset for the last block)
TableBlockBytes(t, i) ==
  SubSeq(t.file, t.block_metas[i].offset + 1,
         IF i = Len(t.block_metas) THEN t.block_meta_offset
         ELSE t.block_metas[i + 1].offset)

\* the entries of the first n blocks of a Table, read in metadata order
RECURSIVE TableEntries(_, _)
TableEntries(t, n) ==
  IF n = 0 THEN <<>>
  ELSE TableEntries(t, n - 1) \o BlockDecode(TableBlockBytes(t, n))

\* C17: when every pair fits an empty block, the entries of the blocks of the
\* built Table, read block by block in metadata order, are exactly the pairs
\* passed to add, in the same order.
C17_ContentPreserved ==
  (result = "Ok" /\ AllFitEmptyBlock) =>
    TableEntries(table, Len(table.block_metas)) = added

\* C18: after at least one add, all pairs fitting an empty block, every block
\* of the built Table holds at least one entry.
C18_NoEmptyBlockAfterData ==
  (result = "Ok" /\ added # <<>> /\ AllFitEmptyBlock) =>
    \A i \in 1..Len(table.block_metas) :
      BlockDecode(TableBlockBytes(table, i)) # <<>>

IsPrefix(a, b) == Len(a) <= Len(b) /\ SubSeq(b, 1, Len(a)) = a

\* C19: every add and every seal keeps the metadata entries and the data bytes
\* it found: the metadata and the data before a step are prefixes of those
\* after it, and the builder's metadata before build is a prefix of the
\* Table's block_metas (its data a prefix of the file).
C19_AppendOnly ==
  [][/\ state' = "Open" =>
          /\ IsPrefix(builder.meta, builder'.meta)
          /\ IsPrefix(builder.data, builder'.data)
     /\ (state = "Open" /\ result' = "Ok") =>
          /\ IsPrefix(builder.meta, table'.block_metas)
          /\ IsPrefix(builder.data, table'.file)]_vars

C19_Witness ==
  /\ result = "Ok"
  /\ Len(table.block_metas) = 3
  /\ table.block_meta_offset > table.block_metas[3].offset

\* a second builder with the same block size, given the same add calls
RECURSIVE Replay(_, _, _)
Replay(block_size, pairs, dbg) ==
  IF pairs = <<>> THEN new(block_size)
  ELSE add(Replay(block_size, SubSeq(pairs, 1, Len(pairs) - 1), dbg),
           pairs[Len(pairs)][1], pairs[Len(pairs)][2], dbg).self

====
